---------------------------- MODULE Spec2Model ----------------------------
(***************************************************************************)
(* Turn router of the customer service agent (app.py): process_workflow,   *)
(* the two awaited Runner.run calls inside it, and the clear button.       *)
(*                                                                         *)
(* A text (Python str) is a sequence of chunks.  A message typed by the    *)
(* user is spelled one character per chunk, so that str.lower and          *)
(* str.strip are computed on it; a string literal of the program is one    *)
(* chunk per literal piece.  A float amount is held in eighths (exact in   *)
(* binary floating point), a float confidence in tenths.                   *)
(***************************************************************************)
EXTENDS Integers, Sequences, FiniteSets, TLC

(* Longest history the model lets a new turn start from, plus that turn. *)
MaxHistory == 5

VARIABLES
    history_state,    \* the list object held by gr.State([]) (line 147)
    workflow_state,   \* the dict held by gr.State({}) (line 146)
    chatbot,          \* value shown by the Chatbot component (line 138)
    category_label,   \* value of the "AI Classification" label (line 142)
    confidence_label, \* value of the "Confidence Score" label (line 143), tenths
    pc,               \* where the running process_workflow call is suspended
    message,          \* process_workflow's parameter `message`
    state,            \* process_workflow's parameter `state` (the dict it was given)
    class_out,        \* local class_out (line 107)
    selected_agent,   \* local selected_agent (line 117)
    agent_out,        \* local agent_out (line 122)
    calls,            \* Runner.run calls made by the current call of process_workflow
    result,           \* how the last call of process_workflow ended
    pre_history,      \* history_state when the last call of process_workflow began
    pre_state,        \* workflow_state when the last call of process_workflow began
    last_event,       \* the event handler that finished last
    in_flight,        \* calls of process_workflow begun and not yet ended
    any_failed        \* some call of process_workflow ended without returning

vars == <<history_state, workflow_state, chatbot, category_label, confidence_label,
          pc, message, state, class_out, selected_agent, agent_out, calls,
          result, pre_history, pre_state, last_event, in_flight, any_failed>>

-----------------------------------------------------------------------------
(* Python values *)

None == "None"

(* dict: a set of <<key, value>> pairs with at most one pair per key *)
EmptyDict == {}

DictGet(d, k) == \E p \in d : p[1] = k /\ p[2] = TRUE

DictSet(d, k, v) == {p \in d : p[1] # k} \cup {<<k, v>>}

(* mutant: the new element is put in front (list.insert(0, x)) *)
ListAppend_Prepends(l, x) == <<x>> \o l

(* list.append *)
ListAppend(l, x) == Append(l, x)

UpperCase == <<"A","B","C","D","E","F","G","H","I","J","K","L","M",
               "N","O","P","Q","R","S","T","U","V","W","X","Y","Z">>

LowerCase == <<"a","b","c","d","e","f","g","h","i","j","k","l","m",
               "n","o","p","q","r","s","t","u","v","w","x","y","z">>

LowerChar(c) ==
    IF \E i \in 1..Len(UpperCase) : UpperCase[i] = c
    THEN LowerCase[CHOOSE i \in 1..Len(UpperCase) : UpperCase[i] = c]
    ELSE c

(* str.lower *)
Lower(s) == [i \in 1..Len(s) |-> LowerChar(s[i])]

Whitespace == {" "}

(* str.strip *)
RECURSIVE Trim(_)
Trim(s) ==
    IF s = <<>> THEN s
    ELSE IF s[1] \in Whitespace THEN Trim(Tail(s))
    ELSE IF s[Len(s)] \in Whitespace THEN Trim(SubSeq(s, 1, Len(s) - 1))
    ELSE s

Digit == <<"0","1","2","3","4","5","6","7","8","9">>

RECURSIVE Digits(_)
Digits(n) == IF n < 10 THEN <<Digit[n + 1]>>
             ELSE Digits(n \div 10) \o <<Digit[(n % 10) + 1]>>

(* num/den rounded to an integer, ties to even (correctly rounded float formatting) *)
RoundHalfEven(num, den) ==
    LET q == num \div den
        r == num % den
    IN  IF 2 * r < den THEN q
        ELSE IF 2 * r > den THEN q + 1
        ELSE IF q % 2 = 0 THEN q ELSE q + 1

(* f"{x:.2f}" of the float x = eighths/8 *)
Format2f(eighths) ==
    LET mag   == IF eighths < 0 THEN -eighths ELSE eighths
        cents == RoundHalfEven(mag * 25, 2)
        sign  == IF eighths < 0 THEN <<"-">> ELSE <<>>
    IN  sign \o Digits(cents \div 100) \o <<".">>
             \o <<Digit[((cents % 100) \div 10) + 1], Digit[(cents % 10) + 1]>>

-----------------------------------------------------------------------------
(* Literals of process_workflow *)

(* line 99: the sentence, a space, and the three characters that close the literal *)
ApprovedText == <<"Order approved and sent to shipping!", " ", "U+201A U+00FA U+00D6">>

(* line 101, likewise *)
CancelledText == <<"Order cancelled at your request.", " ", "U+201A U+00F9 U+00E5">>

ApologyText == <<"I'm sorry, I couldn't categorize your request correctly.">>

AffirmativeReplies == { <<"y","e","s">>, <<"y">>, <<"a","p","p","r","o","v","e">> }

OrderSummary(out) ==
    <<"Order summary: ">> \o out.order_item_name \o <<" ($">>
        \o Format2f(out.order_amount) \o <<"). Approve this order? (yes/no)">>

(* mutant: two entries of the table are exchanged *)
agent_map_Swapped == { <<"books", "ClothingAgent">>, <<"clothing", "BookAgent">>,
                       <<"retention", "RetentionAgent">>, <<"order", "OrderAgent">> }

agent_map == { <<"books", "BookAgent">>, <<"clothing", "ClothingAgent">>,
               <<"retention", "RetentionAgent">>, <<"order", "OrderAgent">> }

(* mutant: an unmapped category falls back to an agent *)
AgentMapGet_Default(category) ==
    IF \E p \in agent_map : p[1] = category
    THEN (CHOOSE p \in agent_map : p[1] = category)[2]
    ELSE "BookAgent"

(* agent_map.get(category) *)
AgentMapGet(category) ==
    IF \E p \in agent_map : p[1] = category
    THEN (CHOOSE p \in agent_map : p[1] = category)[2]
    ELSE None

UserTurn(text) == [role |-> "user", content |-> text]

(* mutant: the reply is stored under the user's role *)
AssistantTurn_AsUser(text) == [role |-> "user", content |-> text]

AssistantTurn(text) == [role |-> "assistant", content |-> text]

-----------------------------------------------------------------------------
(* What the collaborators and the user can hand to the router *)

Messages == { <<"Y","E","S">>, <<" ","y","e","s"," ">>,
              <<"a","p","p","r","o","v","e">>, <<"w","h","a","t","?">> }

Categories == {"books", "clothing", "retention", "order", "unknown", "Books"}

ConfidenceTenths == {9, 15}

ClassificationResponses ==
    [category : Categories, confidence : ConfidenceTenths]

ResponseTexts == { <<>>, <<"Try Atomic Habits!">> }

AmountEighths == {1, 159}

OrderResponses ==
    [type : {"OrderResponse"}, human_approval : BOOLEAN,
     order_item_name : {<<"Atomic Habits">>}, order_amount : AmountEighths,
     response : ResponseTexts]

PlainResponses(type) ==
    [type : {type}, response : ResponseTexts]

(* the output_type of each agent (lines 63-89) *)
AgentOutputs(agent) ==
    CASE agent = "BookAgent"      -> PlainResponses("BookResponse")
      [] agent = "ClothingAgent"  -> PlainResponses("ClothingResponse")
      [] agent = "RetentionAgent" -> PlainResponses("RetentionResponse")
      [] agent = "OrderAgent"     -> OrderResponses

NoOutput == [type |-> None]

(* mutant: the agent is run on history[:-1] *)
RunnerCall_DropsLast(agent, input) ==
    [agent |-> agent, input |-> SubSeq(input, 1, Len(input) - 1)]

(* Runner.run(agent, history) *)
RunnerCall(agent, input) == [agent |-> agent, input |-> input]

-----------------------------------------------------------------------------
Init ==
    /\ history_state = <<>>
    /\ workflow_state = EmptyDict
    /\ chatbot = <<>>
    /\ category_label = None
    /\ confidence_label = None
    /\ pc = "idle"
    /\ message = None
    /\ state = EmptyDict
    /\ class_out = NoOutput
    /\ selected_agent = None
    /\ agent_out = NoOutput
    /\ calls = <<>>
    /\ result = "none"
    /\ pre_history = <<>>
    /\ pre_state = EmptyDict
    /\ last_event = "none"
    /\ in_flight = 0
    /\ any_failed = FALSE


-----------------------------------------------------------------------------
(* process_workflow returns: Gradio writes the returned tuple to the outputs
   [chatbot, workflow_state, category_label, confidence_label] (lines 150-154) *)
Return(history, st, category, confidence) ==
    /\ chatbot' = history
    /\ workflow_state' = st
    /\ category_label' = category
    /\ confidence_label' = confidence
    /\ pc' = "idle"
    /\ result' = "returned"
    /\ last_event' = "process_workflow"
    /\ UNCHANGED any_failed

(* an exception leaves process_workflow: Gradio writes no output *)
Raise ==
    /\ pc' = "idle"
    /\ result' = "raised"
    /\ last_event' = "process_workflow"
    /\ any_failed' = TRUE
    /\ in_flight' = in_flight - 1
    /\ UNCHANGED <<chatbot, workflow_state, category_label, confidence_label>>

(* mutant: the listener runs a submitted message at once, whatever is running *)
NoCallRunning_Unlimited == TRUE

(* lines 150-154: msg.submit registers process_workflow with the listener's
   default settings; the caller starts a call only when none is running *)
NoCallRunning == pc = "idle"

(* lines 92-93: the call begins and appends the user's message *)
Enter(m) ==
    /\ NoCallRunning
    /\ Len(history_state) + 2 <= MaxHistory
    /\ message' = m
    /\ pre_history' = history_state
    /\ pre_state' = workflow_state

(* mutant: the message is stripped before the membership test *)
ConfirmationReply_Trims(m) ==
    IF Lower(Trim(m)) \in AffirmativeReplies THEN ApprovedText ELSE CancelledText

(* the reply chosen at lines 98-101 *)
ConfirmationReply(m) ==
    IF Lower(m) \in AffirmativeReplies THEN ApprovedText ELSE CancelledText

(* mutant: pending_approval is left set *)
ClearPending_Forgets(st) == st

(* line 97 *)
ClearPending(st) == DictSet(st, "pending_approval", FALSE)

(* mutant: the confirmation turn shows the category in lower case *)
ConfirmationLabels_LowerCase == <<"order", 10>>

(* line 103: the category and confidence (1.0) returned by a confirmation turn *)
ConfirmationLabels == <<"Order", 10>>

(* lines 92-103: a message submitted while pending_approval is set *)
ConfirmTurn(m) ==
    /\ Enter(m)
    /\ DictGet(workflow_state, "pending_approval")
    /\ LET st   == ClearPending(workflow_state)
           hist == ListAppend(ListAppend(history_state, UserTurn(m)),
                              AssistantTurn(ConfirmationReply(m)))
       IN  /\ state' = st
           /\ history_state' = hist
           /\ Return(hist, st, ConfirmationLabels[1], ConfirmationLabels[2])
    /\ UNCHANGED in_flight
    /\ calls' = <<>>
    /\ class_out' = NoOutput
    /\ selected_agent' = None
    /\ agent_out' = NoOutput

(* lines 92-106: a message submitted while pending_approval is not set; the
   call suspends in Runner.run(classification_agent, history) *)
StartTurn(m) ==
    /\ Enter(m)
    /\ ~DictGet(workflow_state, "pending_approval")
    /\ state' = workflow_state
    /\ history_state' = ListAppend(history_state, UserTurn(m))
    /\ calls' = <<RunnerCall("ClassificationAgent", history_state')>>
    /\ pc' = "classify"
    /\ class_out' = NoOutput
    /\ selected_agent' = None
    /\ agent_out' = NoOutput
    /\ in_flight' = in_flight + 1
    /\ UNCHANGED <<workflow_state, chatbot, category_label, confidence_label,
                   result, last_event, any_failed>>

(* lines 106-121, and 130-131 when no agent is mapped: the classifier's result
   arrives *)
ClassifierReturns(c) ==
    /\ pc = "classify"
    /\ class_out' = c
    /\ selected_agent' = AgentMapGet(c.category)
    /\ IF selected_agent' = None
       THEN /\ history_state' = ListAppend(history_state, AssistantTurn(ApologyText))
            /\ Return(history_state', state, c.category, c.confidence)
            /\ in_flight' = in_flight - 1
            /\ UNCHANGED calls
       ELSE /\ calls' = Append(calls, RunnerCall(selected_agent', history_state))
            /\ pc' = "respond"
            /\ UNCHANGED <<history_state, workflow_state, chatbot, category_label,
                           confidence_label, result, last_event, in_flight,
                           any_failed>>
    /\ UNCHANGED <<message, state, agent_out, pre_history, pre_state>>

(* mutant: a failed classification is answered with the apology *)
ClassifierFails_Apologises ==
    /\ pc = "classify"
    /\ history_state' = Append(history_state, AssistantTurn(ApologyText))
    /\ Raise
    /\ UNCHANGED <<message, state, class_out, selected_agent,
                   agent_out, calls, pre_history, pre_state>>

(* line 106 raises *)
ClassifierFails ==
    /\ pc = "classify"
    /\ Raise
    /\ UNCHANGED <<history_state, message, state, class_out, selected_agent,
                   agent_out, calls, pre_history, pre_state>>

(* mutant: human_approval is not consulted *)
NeedsApproval_IgnoresFlag(c, out) == c.category = "order"

(* the assistant message and the state chosen at lines 123-128 *)
NeedsApproval(c, out) == c.category = "order" /\ out.human_approval

(* mutant: the summary does not replace the agent's response *)
BotMessage_KeepsResponse(c, out) == out.response

BotMessage(c, out) ==
    IF NeedsApproval(c, out) THEN OrderSummary(out) ELSE out.response

(* mutant: every order awaits approval, whatever human_approval says *)
StateAfter_AnyOrder(st, c, out) ==
    IF c.category = "order" THEN DictSet(st, "pending_approval", TRUE) ELSE st

StateAfter(st, c, out) ==
    IF NeedsApproval(c, out) THEN DictSet(st, "pending_approval", TRUE) ELSE st

(* lines 121-131: the selected agent's result arrives *)
ResponderReturns(out) ==
    /\ pc = "respond"
    /\ out \in AgentOutputs(selected_agent)
    /\ agent_out' = out
    /\ state' = StateAfter(state, class_out, out)
    /\ history_state' =
           ListAppend(history_state, AssistantTurn(BotMessage(class_out, out)))
    /\ Return(history_state', state', class_out.category, class_out.confidence)
    /\ in_flight' = in_flight - 1
    /\ UNCHANGED <<message, class_out, selected_agent, calls, pre_history, pre_state>>

(* mutant: a failed responder call is made once more before giving up *)
ResponderFails_Retries ==
    /\ pc = "respond"
    /\ IF Len(calls) < 3
       THEN /\ calls' = Append(calls, RunnerCall(selected_agent, history_state))
            /\ UNCHANGED <<pc, result, last_event, chatbot, workflow_state,
                           category_label, confidence_label, in_flight, any_failed>>
       ELSE Raise /\ UNCHANGED calls
    /\ UNCHANGED <<history_state, message, state, class_out, selected_agent,
                   agent_out, pre_history, pre_state>>

(* line 121 raises *)
ResponderFails ==
    /\ pc = "respond"
    /\ Raise
    /\ UNCHANGED <<history_state, message, state, class_out, selected_agent,
                   agent_out, calls, pre_history, pre_state>>

(* mutant: the state dict is left out of the cleared outputs *)
Clear_KeepsState ==
    /\ chatbot' = <<>>
    /\ category_label' = ""
    /\ confidence_label' = 0
    /\ last_event' = "clear"
    /\ UNCHANGED <<workflow_state, history_state, pc, message, state, class_out,
                   selected_agent, agent_out, calls, result, pre_history, pre_state,
                   in_flight, any_failed>>

(* line 156: the clear button writes ([], {}, "", 0) to
   [chatbot, workflow_state, category_label, confidence_label] *)
Clear ==
    /\ chatbot' = <<>>
    /\ workflow_state' = EmptyDict
    /\ category_label' = ""
    /\ confidence_label' = 0
    /\ last_event' = "clear"
    /\ UNCHANGED <<history_state, pc, message, state, class_out, selected_agent,
                   agent_out, calls, result, pre_history, pre_state, in_flight,
                   any_failed>>

Next ==
    \/ \E m \in Messages : ConfirmTurn(m)
    \/ \E m \in Messages : StartTurn(m)
    \/ \E c \in ClassificationResponses : ClassifierReturns(c)
    \/ ClassifierFails
    \/ \E out \in OrderResponses \cup PlainResponses("BookResponse")
                  \cup PlainResponses("ClothingResponse")
                  \cup PlainResponses("RetentionResponse") : ResponderReturns(out)
    \/ ResponderFails
    \/ Clear

Spec == Init /\ [][Next]_vars

(* lines 106 and 121: the caller gives the call up while it is suspended in an
   await (the task is cancelled there); nothing after the await runs and no
   output is written *)
Abandon ==
    /\ pc \in {"classify", "respond"}
    /\ pc' = "idle"
    /\ result' = "abandoned"
    /\ last_event' = "process_workflow"
    /\ any_failed' = TRUE
    /\ in_flight' = in_flight - 1
    /\ UNCHANGED <<history_state, workflow_state, chatbot, category_label,
                   confidence_label, message, state, class_out, selected_agent,
                   agent_out, calls, pre_history, pre_state>>

NextWithAbandon ==
    \/ Next
    \/ Abandon

(* the program with a caller that may give up a suspended call *)
SpecWithAbandon == Init /\ [][NextWithAbandon]_vars

-----------------------------------------------------------------------------
(* Vocabulary of the properties *)

Pending(d) == DictGet(d, "pending_approval")

LastTurn == history_state[Len(history_state)]

(* no call of process_workflow is running and the last one returned / raised *)
TurnReturned == pc = "idle" /\ result = "returned"

TurnRaised == pc = "idle" /\ result = "raised"

(* nothing ran after the last call of process_workflow ended *)
JustEnded == pc = "idle" /\ last_event = "process_workflow"

(* the last call of process_workflow began in AwaitingApproval / in Idle *)
ConfirmationTurn == result # "none" /\ Pending(pre_state)

IdleTurn == message # None /\ ~Pending(pre_state)

HasClass == "category" \in DOMAIN class_out

HasAgentOut == "response" \in DOMAIN agent_out

MappedCategories == {"books", "clothing", "retention", "order"}

IsDigit(ch) == \E i \in 1..Len(Digit) : Digit[i] = ch

DigitValue(ch) == (CHOOSE i \in 1..Len(Digit) : Digit[i] = ch) - 1

RECURSIVE ParseDigits(_)
ParseDigits(txt) ==
    IF txt = <<>> THEN 0
    ELSE 10 * ParseDigits(SubSeq(txt, 1, Len(txt) - 1)) + DigitValue(txt[Len(txt)])

(* txt is a decimal numeral with exactly two digits after the point, no spare
   leading zero, and no farther than half a cent from eighths/8 *)
IsTwoDecimalsOf(txt, eighths) ==
    LET neg  == txt # <<>> /\ txt[1] = "-"
        body == IF neg THEN Tail(txt) ELSE txt
        k    == Len(body)
        mag  == IF eighths < 0 THEN -eighths ELSE eighths
    IN  /\ neg = (eighths < 0)
        /\ k >= 4
        /\ body[k - 2] = "."
        /\ \A i \in (1..k) \ {k - 2} : IsDigit(body[i])
        /\ (k = 4 \/ body[1] # "0")
        /\ LET cents == ParseDigits(SubSeq(body, 1, k - 3) \o SubSeq(body, k - 1, k))
               diff  == 2 * cents - 25 * mag
           IN  diff \in -1..1

-----------------------------------------------------------------------------
(* C1: a message submitted while pending_approval is set, whatever its text,
   ends the turn with pending_approval false, and the turn calls neither the
   classifier nor any responder. *)
C1_ConfirmationReturnsToIdle ==
    ConfirmationTurn =>
        /\ pc = "idle"
        /\ result = "returned"
        /\ calls = <<>>
        /\ ~Pending(state)
        /\ (last_event = "process_workflow" => ~Pending(workflow_state))

C1_Witness ==
    /\ ConfirmationTurn
    /\ JustEnded
    /\ message = <<"w","h","a","t","?">>

(* C2 as written: after a message submitted in AwaitingApproval the assistant
   message is exactly "Order approved and sent to shipping!" when the trimmed,
   lower-cased message is yes, y or approve, and exactly "Order cancelled at
   your request." otherwise. *)
C2_TrimmedBareTexts ==
    ConfirmationTurn =>
        LastTurn = AssistantTurn(
            IF Lower(Trim(message)) \in { <<"y","e","s">>, <<"y">>,
                                          <<"a","p","p","r","o","v","e">> }
            THEN <<"Order approved and sent to shipping!">>
            ELSE <<"Order cancelled at your request.">>)

(* C2 amended: the assistant message is exactly the literal of line 99 (the
   approval sentence, a space and the literal's closing characters) when the
   lower-cased message, not trimmed, is yes, y or approve, and exactly the
   literal of line 101 otherwise; so "YES" approves and " yes " cancels. *)
C2_UntrimmedLiteralTexts ==
    ConfirmationTurn =>
        /\ LastTurn = AssistantTurn(
            IF Lower(message) \in { <<"y","e","s">>, <<"y">>,
                                    <<"a","p","p","r","o","v","e">> }
            THEN <<"Order approved and sent to shipping!", " ", "U+201A U+00FA U+00D6">>
            ELSE <<"Order cancelled at your request.", " ", "U+201A U+00F9 U+00E5">>)
        /\ (message = <<"Y","E","S">> => LastTurn.content[1] = "Order approved and sent to shipping!")
        /\ (message = <<" ","y","e","s"," ">> => LastTurn.content[1] = "Order cancelled at your request.")

C2_Witness ==
    /\ ConfirmationTurn
    /\ message = <<" ","y","e","s"," ">>
    /\ LastTurn.role = "assistant"
    /\ LastTurn.content[1] = "Order cancelled at your request."

(* C3: an Idle turn whose classification is "order" and whose order result has
   human_approval set ends with pending_approval true, and appends one assistant
   message: the summary template with the amount in exactly two decimals, in
   place of the agent's response. *)
OrderApprovalTurn ==
    /\ TurnReturned
    /\ HasClass
    /\ class_out.category = "order"
    /\ agent_out.human_approval

C3_OrderSummaryAwaitsApproval ==
    OrderApprovalTurn =>
        LET c    == LastTurn.content
            n    == Len(agent_out.order_item_name)
            amt  == SubSeq(c, n + 3, Len(c) - 1)
        IN  /\ Len(history_state) = Len(pre_history) + 2
            /\ SubSeq(history_state, 1, Len(pre_history)) = pre_history
            /\ history_state[Len(pre_history) + 1] = UserTurn(message)
            /\ LastTurn.role = "assistant"
            /\ c = <<"Order summary: ">> \o agent_out.order_item_name \o <<" ($">>
                     \o amt \o <<"). Approve this order? (yes/no)">>
            /\ IsTwoDecimalsOf(amt, agent_out.order_amount)
            /\ Pending(state)
            /\ (last_event = "process_workflow" =>
                    Pending(workflow_state) /\ chatbot = history_state)

C3_Witness ==
    /\ OrderApprovalTurn
    /\ JustEnded
    /\ agent_out.order_amount = 159
    /\ agent_out.response = <<"Try Atomic Habits!">>
    /\ LastTurn.content[4] = "1"

(* C4: an Idle turn whose category has no mapped agent calls no responder,
   appends the fixed apology, leaves pending_approval false and returns
   normally. *)
UnmappedTurn == HasClass /\ class_out.category \notin MappedCategories

C4_UnmappedCategoryApologises ==
    UnmappedTurn =>
        /\ TurnReturned
        /\ Len(calls) = 1
        /\ calls[1].agent = "ClassificationAgent"
        /\ selected_agent = None
        /\ history_state = pre_history \o
              << UserTurn(message),
                 AssistantTurn(<<"I'm sorry, I couldn't categorize your request correctly.">>) >>
        /\ ~Pending(state)
        /\ (last_event = "process_workflow" =>
                ~Pending(workflow_state) /\ chatbot = history_state)

C4_Witness ==
    /\ UnmappedTurn
    /\ JustEnded
    /\ class_out.category = "Books"
    /\ Len(history_state) = 4

(* C5: the history is append-only across turns: every step of a turn, completed
   or failed, in either state, leaves the history at least as long as it was,
   with the history before the step as an unchanged prefix of the history after. *)
C5_HistoryAppendOnly ==
    [][ /\ Len(history_state') >= Len(history_state)
        /\ SubSeq(history_state', 1, Len(history_state)) = history_state ]_vars

C5_Witness ==
    /\ pc = "idle"
    /\ result = "raised"
    /\ Len(pre_history) = 3
    /\ Len(history_state) = 4
    /\ history_state[1].role = "user" /\ history_state[2].role = "user"

(* C6: every turn appends exactly one user message, then exactly one assistant
   message if it completes and none if it fails; no turn appends more than one
   assistant message. *)
C6_OneUserOneAssistantPerTurn ==
    /\ (pc # "idle" \/ TurnRaised) =>
           history_state = pre_history \o <<UserTurn(message)>>
    /\ TurnReturned =>
           /\ Len(history_state) = Len(pre_history) + 2
           /\ SubSeq(history_state, 1, Len(pre_history) + 1)
                  = pre_history \o <<UserTurn(message)>>
           /\ LastTurn.role = "assistant"

C6_Witness ==
    /\ TurnReturned
    /\ HasAgentOut
    /\ Len(pre_history) = 1
    /\ Len(history_state) = 3
    /\ history_state[1].role = "user"

(* C7: when the classifier call or the responder call of an Idle turn fails,
   the call is not made again, the error leaves process_workflow, the history
   is the pre-turn history plus the user's message alone, and pending_approval
   is what it was before the turn. *)
C7_FailedTurnKeepsHistoryAndState ==
    TurnRaised =>
        /\ IdleTurn
        /\ Len(calls) \in 1..2
        /\ calls[1].agent = "ClassificationAgent"
        /\ (Len(calls) = 2 => calls[2].agent = selected_agent /\ HasClass)
        /\ (Len(calls) = 1 => ~HasClass)
        /\ ~HasAgentOut
        /\ history_state = pre_history \o <<UserTurn(message)>>
        /\ state = pre_state
        /\ (last_event = "process_workflow" =>
                /\ Pending(workflow_state) = Pending(pre_state)
                /\ Len(chatbot) <= Len(pre_history))

C7_Witness ==
    /\ TurnRaised
    /\ JustEnded
    /\ Len(calls) = 2
    /\ calls[2].agent = "OrderAgent"
    /\ Len(chatbot) = 2
    /\ Len(history_state) = 3

(* C8: clear, clicked in any state, yields an empty history, pending_approval
   false (the empty state dict), category "" and confidence 0; a second clear
   yields the same. *)
C8_ClearYieldsIdleOutputs ==
    last_event = "clear" =>
        /\ workflow_state = EmptyDict
        /\ ~Pending(workflow_state)
        /\ chatbot = <<>>
        /\ category_label = ""
        /\ confidence_label = 0

C8_Witness ==
    /\ last_event = "clear"
    /\ Pending(state)
    /\ TurnReturned
    /\ Len(history_state) = 4

(* C9: between turns pending_approval is true exactly when the last turn was an
   Idle turn classified "order" whose order result had human_approval set, and
   neither a message nor a clear has been handled since. *)
C9_PendingIffOrderAwaitingAnswer ==
    pc = "idle" =>
        ( Pending(workflow_state) <=>
            /\ last_event = "process_workflow"
            /\ result = "returned"
            /\ IdleTurn
            /\ HasClass
            /\ class_out.category = "order"
            /\ agent_out.human_approval )

C9_Witness ==
    /\ pc = "idle"
    /\ Pending(workflow_state)
    /\ Len(pre_history) = 3
    /\ history_state[3].content = ApologyText

(* C10: a classification whose confidence lies outside [0,1] fails the turn:
   no responder is called, no assistant message is appended and the value is
   never shown as the confidence. *)
C10_OutOfRangeConfidenceFailsTurn ==
    (HasClass /\ class_out.confidence \notin 0..10) =>
        /\ TurnRaised
        /\ Len(calls) = 1
        /\ history_state = pre_history \o <<UserTurn(message)>>
        /\ confidence_label # class_out.confidence

(* C11: turns are processed one at a time: in every reachable state at most
   one call of process_workflow is in flight, and while one is suspended in a
   classifier or responder call the history holds no user message but its own. *)
C11_OneTurnInFlight ==
    /\ in_flight \in 0..1
    /\ (in_flight = 1) = (pc # "idle")
    /\ pc # "idle" => history_state = pre_history \o <<UserTurn(message)>>

C11_Witness ==
    /\ in_flight = 1
    /\ pc = "respond"
    /\ last_event = "clear"
    /\ Len(history_state) = 3

(* C12: a turn given up by the caller while a collaborator call is outstanding
   leaves the history and the state as they were before the turn. *)
C12_AbandonedTurnLeavesNoTrace ==
    (pc = "idle" /\ result = "abandoned") =>
        /\ history_state = pre_history
        /\ state = pre_state

(* C13: a completed Idle turn whose category is books, clothing or retention,
   or order without human_approval, appends the agent's response verbatim,
   leaves pending_approval false, and shows the classifier's category and
   confidence. *)
PlainAnswerTurn ==
    /\ TurnReturned
    /\ IdleTurn
    /\ HasClass
    /\ class_out.category \in MappedCategories
    /\ ~(class_out.category = "order" /\ agent_out.human_approval)

C13_ResponseAppendedVerbatim ==
    PlainAnswerTurn =>
        /\ history_state = pre_history \o
               <<UserTurn(message), AssistantTurn(agent_out.response)>>
        /\ ~Pending(state)
        /\ (last_event = "process_workflow" =>
                /\ ~Pending(workflow_state)
                /\ chatbot = history_state
                /\ category_label = class_out.category
                /\ confidence_label = class_out.confidence)

C13_Witness ==
    /\ PlainAnswerTurn
    /\ JustEnded
    /\ class_out.category = "order"
    /\ agent_out.response = <<"Try Atomic Habits!">>
    /\ category_label = "order"
    /\ confidence_label = 9

(* C14: a completed turn shows the classifier's own category and confidence
   when it began in Idle, an unmapped category included, and the fixed pair
   "Order", 1.0 when it began in AwaitingApproval, approved or cancelled. *)
C14_DisplayedCategoryAndConfidence ==
    (JustEnded /\ result = "returned") =>
        IF Pending(pre_state)
        THEN category_label = "Order" /\ confidence_label = 10
        ELSE /\ HasClass
             /\ category_label = class_out.category
             /\ confidence_label = class_out.confidence

C14_Witness ==
    /\ JustEnded
    /\ ConfirmationTurn
    /\ LastTurn.content[1] = "Order cancelled at your request."
    /\ category_label = "Order"
    /\ confidence_label = 10

(* C15: the first turn submitted after a clear starts from the empty history:
   the classifier is handed the user's message alone (so that the completed
   turn returns two turns, none of them from before the clear). *)
C15_TurnAfterClearStartsEmpty ==
    [][ (pc = "idle" /\ last_event = "clear" /\ pc' = "classify") =>
            /\ pre_history' = <<>>
            /\ calls'[1].input = <<UserTurn(message')>> ]_vars

(* C16: within an Idle turn the classifier is called exactly once and has
   returned before any responder is called; at most one responder is called,
   the one mapped to the category the classifier returned in that turn. *)
MappedAgent(category) ==
    CASE category = "books"     -> "BookAgent"
      [] category = "clothing"  -> "ClothingAgent"
      [] category = "retention" -> "RetentionAgent"
      [] category = "order"     -> "OrderAgent"

C16_ClassifierThenOneResponder ==
    IdleTurn =>
        /\ Len(calls) \in 1..2
        /\ calls[1].agent = "ClassificationAgent"
        /\ (pc = "classify" => Len(calls) = 1 /\ ~HasClass)
        /\ (pc = "respond" => Len(calls) = 2)
        /\ (Len(calls) = 2 =>
                /\ HasClass
                /\ class_out.category \in MappedCategories
                /\ calls[2].agent = MappedAgent(class_out.category))
        /\ (HasAgentOut => Len(calls) = 2)

C16_Witness ==
    /\ IdleTurn
    /\ TurnReturned
    /\ Len(calls) = 2
    /\ class_out.category = "clothing"
    /\ calls[2].agent = "ClothingAgent"

(* C17: every assistant message in the history is non-empty: an agent result
   with an empty response fails the turn instead of being appended. *)
C17_AssistantMessagesNonEmpty ==
    \A i \in 1..Len(history_state) :
        history_state[i].role = "assistant" => history_state[i].content # <<>>

(* C18: the classifier and the responder of one Idle turn are handed the same
   history: the pre-turn history followed by the current user message, with no
   assistant message of the current turn. *)
C18_BothCallsGetSameHistory ==
    IdleTurn =>
        \A i \in 1..Len(calls) :
            /\ calls[i].input = pre_history \o <<UserTurn(message)>>
            /\ calls[i].input = calls[1].input

C18_Witness ==
    /\ IdleTurn
    /\ TurnReturned
    /\ Len(calls) = 2
    /\ Len(pre_history) = 2
    /\ Len(calls[2].input) = 3

(* C19: an approval or cancellation message is in the history only as the
   answer to an order summary: the turn before it is the user's reply and the
   one before that an assistant "Order summary: ..." message; a message
   submitted in Idle never produces either text. *)
IsConfirmationText(text) ==
    /\ text # <<>>
    /\ text[1] \in {"Order approved and sent to shipping!",
                    "Order cancelled at your request."}

C19_ConfirmationOnlyAfterSummary ==
    /\ \A i \in 1..Len(history_state) :
          (history_state[i].role = "assistant"
              /\ IsConfirmationText(history_state[i].content)) =>
                 /\ i >= 3
                 /\ history_state[i - 1].role = "user"
                 /\ history_state[i - 2].role = "assistant"
                 /\ history_state[i - 2].content # <<>>
                 /\ history_state[i - 2].content[1] = "Order summary: "
    /\ (IdleTurn /\ TurnReturned) => ~IsConfirmationText(LastTurn.content)

C19_Witness ==
    /\ Len(history_state) = 5
    /\ history_state[1].role = "user" /\ history_state[2].role = "user"
    /\ history_state[3].content # <<>>
    /\ history_state[3].content[1] = "Order summary: "
    /\ history_state[4].content = <<"Y","E","S">>
    /\ IsConfirmationText(history_state[5].content)
    /\ last_event = "clear"

(* C20: the first turn of the history is a user message and every assistant
   message comes right after a user message; when no turn has failed the
   history alternates user, assistant and has even length between turns. *)
C20_HistoryShape ==
    /\ history_state # <<>> => history_state[1].role = "user"
    /\ \A i \in 1..Len(history_state) :
          history_state[i].role = "assistant" =>
              i >= 2 /\ history_state[i - 1].role = "user"
    /\ (~any_failed /\ pc = "idle") =>
          /\ Len(history_state) % 2 = 0
          /\ \A i \in 1..Len(history_state) :
                history_state[i].role = IF i % 2 = 1 THEN "user" ELSE "assistant"

C20_Witness ==
    /\ pc = "idle"
    /\ ~any_failed
    /\ Len(history_state) = 4
    /\ IsConfirmationText(history_state[4].content)

=============================================================================
